---- MODULE Spec2Model ----
(***************************************************************************)
(* Multi-participant scene orchestration of qny-python:                    *)
(*   app/services/scene_service.py  (SceneService)                         *)
(*   app/routers/scene.py           (the HTTP handlers around it)          *)
(*   app/models/scene.py            (the tables)                           *)
(*                                                                         *)
(* The database is the shared state: one table per variable, a row's id   *)
(* being its index in the table.  Every handler runs on its own database  *)
(* session; what it has added but not committed lives in the request      *)
(* (req) and is dropped when the handler leaves by an exception.          *)
(* A handler is one step, except send_message, which is suspended while   *)
(* the external LLM call (generate_reply) is in flight: other requests    *)
(* run in between.                                                        *)
(* session.template and participant.role are read as the rows that the   *)
(* foreign keys template_id and role_id name.                             *)
(***************************************************************************)
EXTENDS Integers, Sequences, FiniteSets, TLC

\* ---------------------------------------------------------------- bounds
MaxParticipants == 4
MaxTurns == 2
MaxClock == 2

\* ------------------------------------------------------------- constants
NULL == 0

\* the ids of the scene_sessions rows that can be made
SessionIds == {1, 2}

Procs == {1, 2}
\* the callers; sessions are created by user 1, user 2 is somebody else
Users == {1, 2}
Owners == {1}

\* roles table (app/models/role.py); 9 is an id with no row
RoleIds == {1, 2, 3}
RoleInputs == RoleIds \cup {9}

\* Role.name, in the order init_data.py seeds prompt_templates.ROLE_TEMPLATES
RoleName(r) ==
  CASE r = 1 -> "HarryPotter"
    [] r = 2 -> "Socrates"
    [] OTHER -> "SherlockHolmes"

\* SceneStatus
ACTIVE == "active"
PAUSED == "paused"
ENDED == "ended"
ARCHIVED == "archived"
SceneStatus == {ACTIVE, PAUSED, ENDED, ARCHIVED}

\* ParticipantType
AI == "ai"
USER == "user"
ParticipantType == {AI, USER}
\* the participant_type the callers of add_participant send
AddTypes == {AI}

\* scene_templates rows: 5 is disabled, 6 has no row
TemplateIds == {1, 2, 3, 4, 5, 7}
TemplateInputs == TemplateIds \cup {6}
\* the templates that take three roles
ThreeRoleTemplates == {1, 7}

SceneTemplate(t) ==
  CASE t = 1 -> [is_active |-> TRUE, min_roles |-> 2, max_roles |-> 3,
                 response_strategy |-> "sequential"]
    [] t = 2 -> [is_active |-> TRUE, min_roles |-> 2, max_roles |-> 2,
                 response_strategy |-> "expertise_based"]
    [] t = 3 -> [is_active |-> TRUE, min_roles |-> 2, max_roles |-> 2,
                 response_strategy |-> "collaborative"]
    [] t = 4 -> [is_active |-> TRUE, min_roles |-> 2, max_roles |-> 2,
                 response_strategy |-> "sequential"]
    [] t = 7 -> [is_active |-> TRUE, min_roles |-> 2, max_roles |-> 3,
                 response_strategy |-> "collaborative"]
    [] OTHER -> [is_active |-> FALSE, min_roles |-> 2, max_roles |-> 3,
                 response_strategy |-> "sequential"]

\* message texts, as the words they are made of: what matters of a text is
\* the expertise keywords it holds
Contents == {<<"hello">>, <<"magic">>}

\* keyword in user_message
KeywordIn(kw, content) == \E i \in DOMAIN content : content[i] = kw

\* expertise_keywords, in dict order (the rows whose roles the model has)
ExpertiseKeywords ==
  << [keyword |-> "philosophy", role_names |-> {"Socrates"}],
     [keyword |-> "magic", role_names |-> {"HarryPotter"}],
     [keyword |-> "reasoning", role_names |-> {"SherlockHolmes"}] >>

\* ------------------------------------------------------------------ state
VARIABLES
  sessions,      \* scene_sessions: Seq of rows
  participants,  \* scene_participants: Seq of rows
  messages,      \* scene_messages: Seq of rows (committed)
  req,           \* per process: the send_message call it is inside, if any
  ret,           \* the last response a handler gave
  clock,         \* datetime.utcnow()
  turns          \* number of send_message turns that reached the LLM

vars == <<sessions, participants, messages, req, ret, clock, turns>>

\* a send_message call: its locals while generate_reply is in flight
\*   sid, hint, content: message_data; up: user_participant.id;
\*   cnt: session.message_count as loaded; sel: the participants asked;
\*   replies: the texts got so far; strategy: the template's
Idle == [pc |-> "idle", sid |-> 0, up |-> 0, cnt |-> 0, sel |-> <<>>,
         hint |-> 0, content |-> <<>>, replies |-> <<>>, strategy |-> ""]

Init ==
  /\ sessions = <<>>
  /\ participants = <<>>
  /\ messages = <<>>
  /\ req = [p \in Procs |-> Idle]
  /\ ret = [op |-> "none", code |-> 0, detail |-> "none"]
  /\ clock = 1
  /\ turns = 0

Response(op, code, detail) == [op |-> op, code |-> code, detail |-> detail]

\* ---------------------------------------------------------------- queries
Range(s) == {s[i] : i \in DOMAIN s}

\* get_session
get_session(sid) == IF sid \in DOMAIN sessions THEN sid ELSE NULL

\* the ids of the rows of a session, in id order
ParticipantIdsOf(sid) ==
  {i \in DOMAIN participants : participants[i].session_id = sid}

\* ORDER BY join_order (ties: id order), as a sequence of ids
RECURSIVE OrderByJoin(_)
OrderByJoin(S) ==
  IF S = {} THEN <<>>
  ELSE LET m == CHOOSE i \in S : \A j \in S :
                  \/ participants[i].join_order < participants[j].join_order
                  \/ /\ participants[i].join_order = participants[j].join_order
                     /\ i <= j
       IN <<m>> \o OrderByJoin(S \ {m})

get_session_participants(sid) == OrderByJoin(ParticipantIdsOf(sid))

get_active_participants(sid) ==
  OrderByJoin({i \in ParticipantIdsOf(sid) : participants[i].is_active})

Min(S) == CHOOSE x \in S : \A y \in S : x <= y
Max(S) == CHOOSE x \in S : \A y \in S : x >= y

\* ---------------------------------------------------------------- clock
Tick ==
  /\ clock < MaxClock
  /\ clock' = clock + 1
  /\ UNCHANGED <<sessions, participants, messages, req, ret, turns>>

\* --------------------------------------------------------- create_session
\* create_session without the is_active test on the template
create_session_of_disabled_template(uid, tid) ==
  /\ Len(sessions) + 1 \in SessionIds
  /\ IF tid \in TemplateIds
     THEN /\ sessions' = Append(sessions,
                [user_id |-> uid, template_id |-> tid, status |-> ACTIVE,
                 current_speaker |-> NULL, message_count |-> 0,
                 updated_at |-> clock, ended_at |-> NULL])
          /\ ret' = Response("create_session", 200, "ok")
     ELSE /\ sessions' = sessions
          /\ ret' = Response("create_session", 400, "template_missing_or_disabled")
  /\ UNCHANGED <<participants, messages, req, clock, turns>>

create_session(uid, tid) ==
  /\ Len(sessions) + 1 \in SessionIds
  /\ IF tid \in TemplateIds /\ SceneTemplate(tid).is_active
     THEN /\ sessions' = Append(sessions,
                [user_id |-> uid, template_id |-> tid, status |-> ACTIVE,
                 current_speaker |-> NULL, message_count |-> 0,
                 updated_at |-> clock, ended_at |-> NULL])
          /\ ret' = Response("create_session", 200, "ok")
     ELSE /\ sessions' = sessions
          /\ ret' = Response("create_session", 400, "template_missing_or_disabled")
  /\ UNCHANGED <<participants, messages, req, clock, turns>>

\* the router's guard: the session exists and belongs to the caller
Owned(uid, sid) ==
  /\ get_session(sid) # NULL
  /\ sessions[sid].user_id = uid

\* the session the calls on participants and turns are addressed to
SessionInputs == {1}
ParticipantInputs == 1..MaxParticipants

\* -------------------------------------------------------- add_participant
\* add_participant_check without the test for the role being in the session
add_participant_check_allowing_duplicates(sid, rid) ==
  IF get_session(sid) = NULL THEN "session_missing"
  ELSE IF rid \notin RoleIds THEN "role_missing"
  ELSE IF /\ sessions[sid].template_id \in TemplateIds
          /\ Cardinality(ParticipantIdsOf(sid))
               >= SceneTemplate(sessions[sid].template_id).max_roles
       THEN "max_roles_reached"
  ELSE "ok"

\* SceneService.add_participant: the ValueError it raises, or "ok"
add_participant_check(sid, rid) ==
  IF get_session(sid) = NULL THEN "session_missing"
  ELSE IF rid \notin RoleIds THEN "role_missing"
  ELSE IF \E i \in ParticipantIdsOf(sid) : participants[i].role_id = rid
       THEN "role_already_in_session"
  ELSE IF /\ sessions[sid].template_id \in TemplateIds
          /\ Cardinality(ParticipantIdsOf(sid))
               >= SceneTemplate(sessions[sid].template_id).max_roles
       THEN "max_roles_reached"
  ELSE "ok"

\* func.max(join_order) ... .scalar() or 0
max_order(sid) ==
  IF ParticipantIdsOf(sid) = {} THEN 0
  ELSE Max({participants[i].join_order : i \in ParticipantIdsOf(sid)})

NewParticipant(sid, rid, ptype, jo) ==
  [session_id |-> sid, role_id |-> rid, participant_type |-> ptype,
   join_order |-> jo, is_active |-> TRUE, speak_count |-> 0,
   last_speak_at |-> NULL]

add_participant(uid, sid, rid, ptype) ==
  /\ IF ~Owned(uid, sid)
     THEN /\ participants' = participants
          /\ ret' = Response("add_participant", 404, "session_missing_or_forbidden")
     ELSE LET chk == add_participant_check(sid, rid) IN
          IF chk # "ok"
          THEN /\ participants' = participants
               /\ ret' = Response("add_participant", 400, chk)
          ELSE /\ Len(participants) < MaxParticipants
               /\ participants' = Append(participants,
                     NewParticipant(sid, rid, ptype, max_order(sid) + 1))
               /\ ret' = Response("add_participant", 200, "ok")
  /\ UNCHANGED <<sessions, messages, req, clock, turns>>

\* ----------------------------------------------------- remove_participant
\* remove_participant_rows that also closes the gap in join_order, moving
\* up the participants of the session that joined later
remove_participant_rows_renumbering(pid) ==
  IF pid \in DOMAIN participants
  THEN [i \in DOMAIN participants |->
          IF i = pid THEN [participants[i] EXCEPT !.is_active = FALSE]
          ELSE IF /\ participants[i].session_id = participants[pid].session_id
                  /\ participants[i].join_order > participants[pid].join_order
               THEN [participants[i] EXCEPT !.join_order = @ - 1]
               ELSE participants[i]]
  ELSE participants

\* SceneService.remove_participant: the row is found by its id alone
remove_participant_rows(pid) ==
  IF pid \in DOMAIN participants
  THEN [participants EXCEPT ![pid].is_active = FALSE]
  ELSE participants

remove_participant(uid, sid, pid) ==
  /\ IF ~Owned(uid, sid)
     THEN /\ participants' = participants
          /\ ret' = Response("remove_participant", 404, "session_missing_or_forbidden")
     ELSE /\ participants' = remove_participant_rows(pid)
          /\ ret' = IF pid \in DOMAIN participants
                    THEN Response("remove_participant", 200, "ok")
                    ELSE Response("remove_participant", 400, "remove_failed")
  /\ UNCHANGED <<sessions, messages, req, clock, turns>>

\* ------------------------------------------------------------ end_session
\* SceneService.end_session: the row after the call
end_session_row(row) ==
  [row EXCEPT !.status = ENDED, !.ended_at = clock, !.updated_at = clock]

\* SceneService.end_session: its return value
end_session_result(sid) == get_session(sid) # NULL

\* POST /sessions/{id}/end and DELETE /sessions/{id} both come here
EndOrDelete(op, uid, sid) ==
  /\ IF ~Owned(uid, sid)
     THEN /\ sessions' = sessions
          /\ ret' = Response(op, 404, "session_missing_or_forbidden")
     ELSE /\ sessions' = [sessions EXCEPT ![sid] = end_session_row(@)]
          /\ ret' = IF end_session_result(sid)
                    THEN Response(op, 200, "ok")
                    ELSE Response(op, 400, "end_failed")
  /\ UNCHANGED <<participants, messages, req, clock, turns>>

end_session(uid, sid) == EndOrDelete("end_session", uid, sid)

delete_session(uid, sid) == EndOrDelete("delete_session", uid, sid)

\* --------------------------------------------------------- update_session
\* SceneSessionUpdate with exclude_unset: a field is either left out or set
UNSET == "unset"
StatusInputs == SceneStatus \cup {UNSET}
SpeakerInputs == {NULL} \cup RoleInputs

\* setattr(session, field, value) for the fields given; updated_at has
\* onupdate=datetime.utcnow, so it moves when the row is written
update_session_row(row, st, setspk, spk) ==
  LET r1 == IF st # UNSET THEN [row EXCEPT !.status = st] ELSE row
      r2 == IF setspk THEN [r1 EXCEPT !.current_speaker = spk] ELSE r1
  IN IF r2 # row THEN [r2 EXCEPT !.updated_at = clock] ELSE row

update_session(uid, sid, st, setspk, spk) ==
  /\ IF ~Owned(uid, sid)
     THEN /\ sessions' = sessions
          /\ ret' = Response("update_session", 404, "session_missing_or_forbidden")
     ELSE /\ sessions' = [sessions EXCEPT ![sid] = update_session_row(@, st, setspk, spk)]
          /\ ret' = Response("update_session", 200, "ok")
  /\ UNCHANGED <<participants, messages, req, clock, turns>>

\* ----------------------------------------------------------- send_message
\* ai_participants = [p for p in participants if p.participant_type == AI]
AiOf(parts) ==
  SelectSeq(parts, LAMBDA i : participants[i].participant_type = AI)

\* current_index that answers 0, the first participant, when no participant
\* has the hint as role_id
current_index_of_first_when_unknown(ai, hint) ==
  IF \E i \in DOMAIN ai : participants[ai[i]].role_id = hint
  THEN Min({i \in DOMAIN ai : participants[ai[i]].role_id = hint}) - 1
  ELSE 0

\* the index (from 0) of the first participant whose role_id is the hint,
\* or -1
current_index(ai, hint) ==
  IF \E i \in DOMAIN ai : participants[ai[i]].role_id = hint
  THEN Min({i \in DOMAIN ai : participants[ai[i]].role_id = hint}) - 1
  ELSE -1

\* sequential_speakers without the wrap-around: the last speaker's successor
\* is the last speaker again
sequential_speakers_nowrap(parts, hint) ==
  LET ai == AiOf(parts) IN
  IF ai = <<>> THEN <<>>
  ELSE IF hint # NULL
       THEN << ai[Min({current_index(ai, hint) + 1, Len(ai) - 1}) + 1] >>
       ELSE << ai[1] >>

\* sequential_speakers that does not look at the hint
sequential_speakers_ignoring_hint(parts, hint) ==
  LET ai == AiOf(parts) IN
  IF ai = <<>> THEN <<>>
  ELSE << ai[1] >>

\* _generate_sequential_responses: the participants that are asked to reply
sequential_speakers(parts, hint) ==
  LET ai == AiOf(parts) IN
  IF ai = <<>> THEN <<>>
  ELSE IF hint # NULL
       THEN << ai[((current_index(ai, hint) + 1) % Len(ai)) + 1] >>
       ELSE << ai[1] >>

\* _generate_expertise_responses: the keyword loop; NULL when nothing matches
RECURSIVE best_role(_, _, _)
best_role(parts, content, k) ==
  IF k > Len(ExpertiseKeywords) THEN NULL
  ELSE LET kw == ExpertiseKeywords[k]
           hit == {i \in DOMAIN parts :
                     RoleName(participants[parts[i]].role_id) \in kw.role_names}
       IN IF KeywordIn(kw.keyword, content) /\ hit # {}
          THEN parts[Min(hit)]
          ELSE best_role(parts, content, k + 1)

\* _generate_expertise_responses: every list it can select (random.choice)
expertise_speakers(parts, content) ==
  LET best == best_role(parts, content, 1) IN
  IF best # NULL THEN { <<best>> }
  ELSE IF AiOf(parts) = <<>> THEN { <<>> }
  ELSE { <<i>> : i \in Range(AiOf(parts)) }

\* collaborative_speakers without the fall-back to sequential_speakers
collaborative_speakers_no_fallback(parts, hint) ==
  LET ai == AiOf(parts) IN
  IF Len(ai) < 2 THEN <<>>
  ELSE << ai[1], ai[2] >>

\* collaborative_speakers with the two selected participants in the
\* opposite order
collaborative_speakers_reversed(parts, hint) ==
  LET ai == AiOf(parts) IN
  IF Len(ai) < 2 THEN sequential_speakers(parts, hint)
  ELSE << ai[2], ai[1] >>

\* _generate_collaborative_responses
collaborative_speakers(parts, hint) ==
  LET ai == AiOf(parts) IN
  IF Len(ai) < 2 THEN sequential_speakers(parts, hint)
  ELSE << ai[1], ai[2] >>

\* _generate_ai_responses: the dispatch on the template's response_strategy
Speakers(strategy, parts, hint, content) ==
  CASE strategy = "expertise_based" -> expertise_speakers(parts, content)
    [] strategy = "collaborative" -> { collaborative_speakers(parts, hint) }
    [] OTHER -> { sequential_speakers(parts, hint) }

\* the context a reply is tagged with
ReplyTag(strategy, n, k) ==
  CASE strategy = "expertise_based" -> "expertise_based"
    [] strategy = "collaborative" /\ n = 2 ->
         (IF k = 1 THEN "primary" ELSE "supplementary")
    [] OTHER -> "sequential"

\* the prompt of the k-th generate_reply call of a turn
Prompt(r, k) ==
  IF r.strategy = "collaborative" /\ Len(r.sel) = 2 /\ k = 2
  THEN <<"follow_up", r.content, r.replies[1]>>
  ELSE <<r.content>>

\* what generate_reply returns: a text of that role to that prompt
Reply(rid, prompt) == <<"reply", rid, prompt>>

\* a scene_messages row; message_order is never given a value
SceneMessage(sid, pid, rid, content, tag) ==
  [session_id |-> sid, participant_id |-> pid, role_id |-> rid,
   content |-> content, message_order |-> NULL, tag |-> tag]

\* the rows send_message adds: the user message, then the AI replies
TurnMessages(r) ==
  << SceneMessage(r.sid, r.up, participants'[r.up].role_id, <<r.content>>, "user") >>
  \o [k \in 1..Len(r.replies) |->
        SceneMessage(r.sid, r.sel[k], participants'[r.sel[k]].role_id,
                     r.replies[k], ReplyTag(r.strategy, Len(r.sel), k))]

\* Persist that counts the replies only, not the user's message
Persist_counting_replies_only(r) ==
  /\ messages' = messages \o TurnMessages(r)
  /\ sessions' = [sessions EXCEPT
        ![r.sid].message_count = r.cnt + Len(r.replies),
        ![r.sid].updated_at = clock,
        ![r.sid].current_speaker =
            IF r.replies # <<>>
            THEN participants'[r.sel[Len(r.replies)]].role_id
            ELSE @]

\* lines 210-232: save the replies, count, current speaker, commit
Persist(r) ==
  /\ messages' = messages \o TurnMessages(r)
  /\ sessions' = [sessions EXCEPT
        ![r.sid].message_count = r.cnt + Len(r.replies) + 1,
        ![r.sid].updated_at = clock,
        ![r.sid].current_speaker =
            IF r.replies # <<>>
            THEN participants'[r.sel[Len(r.replies)]].role_id
            ELSE @]

\* send_message_check without the test for active participants
send_message_check_any_participants(uid, sid) ==
  IF ~Owned(uid, sid) THEN "session_missing_or_forbidden"
  ELSE IF sessions[sid].status # ACTIVE THEN "session_not_active"
  ELSE "ok"

\* send_message_check without the test of the session's status
send_message_check_any_status(uid, sid) ==
  IF ~Owned(uid, sid) THEN "session_missing_or_forbidden"
  ELSE IF get_active_participants(sid) = <<>> THEN "no_active_participants"
  ELSE "ok"

\* the ValueError send_message raises before it writes anything, or "ok"
send_message_check(uid, sid) ==
  IF ~Owned(uid, sid) THEN "session_missing_or_forbidden"
  ELSE IF sessions[sid].status # ACTIVE THEN "session_not_active"
  ELSE IF get_active_participants(sid) = <<>> THEN "no_active_participants"
  ELSE "ok"

\* user_participant that never finds the row
user_participant_not_found(sid) == NULL

\* the participant of type USER of the session, or NULL
user_participant(sid) ==
  LET us == {i \in ParticipantIdsOf(sid) : participants[i].participant_type = USER}
  IN IF us = {} THEN NULL ELSE Min(us)

\* send_message up to the first generate_reply call (or to its end, when no
\* participant is asked)
send_message(p, uid, sid, hint, content) ==
  /\ req[p].pc = "idle"
  /\ LET chk == send_message_check(uid, sid) IN
     IF chk # "ok"
     THEN /\ ret' = Response("send_message", 400, chk)
          /\ UNCHANGED <<sessions, participants, messages, req, turns>>
     ELSE
       LET parts == get_active_participants(sid)
           found == user_participant(sid)
           up == IF found = NULL THEN Len(participants) + 1 ELSE found
           strategy == SceneTemplate(sessions[sid].template_id).response_strategy
       IN
       /\ turns < MaxTurns
       /\ turns' = turns + 1
       /\ IF found = NULL
          THEN /\ Len(participants) < MaxParticipants
               /\ participants' = Append(participants, NewParticipant(sid, 1, USER, 0))
          ELSE participants' = participants
       /\ \E sel \in Speakers(strategy, parts, hint, content) :
            LET r == [pc |-> "responding", sid |-> sid, up |-> up,
                      cnt |-> sessions[sid].message_count, sel |-> sel,
                      hint |-> hint, content |-> content, replies |-> <<>>,
                      strategy |-> strategy]
            IN IF sel = <<>>
               THEN /\ Persist(r)
                    /\ req' = req
                    /\ ret' = Response("send_message", 200, "ok")
               ELSE /\ req' = [req EXCEPT ![p] = r]
                    /\ UNCHANGED <<sessions, messages, ret>>
  /\ UNCHANGED clock

\* generate_reply returns: the next call of the turn, or the end of the turn
generate_reply_ok(p) ==
  /\ req[p].pc = "responding"
  /\ LET k == Len(req[p].replies) + 1
         rid == participants[req[p].sel[k]].role_id
         r == [req[p] EXCEPT !.replies = Append(@, Reply(rid, Prompt(req[p], k)))]
     IN IF k < Len(r.sel)
        THEN /\ req' = [req EXCEPT ![p] = r]
             /\ UNCHANGED <<sessions, messages, ret>>
        ELSE /\ participants' = participants
             /\ Persist(r)
             /\ req' = [req EXCEPT ![p] = Idle]
             /\ ret' = Response("send_message", 200, "ok")
  /\ UNCHANGED <<participants, clock, turns>>

\* generate_reply raises: Exception (LLM call failed, not caught by the
\* router) or ValueError (no API key, caught as 400); nothing was committed
generate_reply_fails(p, code) ==
  /\ req[p].pc = "responding"
  /\ req' = [req EXCEPT ![p] = Idle]
  /\ ret' = Response("send_message", code, "llm_failed")
  /\ UNCHANGED <<sessions, participants, messages, clock, turns>>

\* the calls on participants and turns, made by the processes P with
\* message texts drawn from C and current_speaker hints drawn from H
Turns(P, C, H) ==
  \/ \E u \in Users, s \in SessionInputs, r \in RoleInputs, k \in AddTypes :
       add_participant(u, s, r, k)
  \/ \E u \in Users, s \in SessionInputs, i \in ParticipantInputs :
       remove_participant(u, s, i)
  \/ \E p \in P, u \in Users, s \in SessionInputs, h \in H, c \in C :
       send_message(p, u, s, h, c)
  \/ \E p \in P : generate_reply_ok(p)
  \/ \E p \in P, code \in {400, 500} : generate_reply_fails(p, code)

Next ==
  \/ \E u \in Owners, t \in TemplateInputs \ ThreeRoleTemplates :
       sessions = <<>> /\ create_session(u, t)
  \/ Turns(Procs, Contents, {NULL, 2})

\* participants and turns of a session of a two-role template, at one
\* instant of the clock
Spec == Init /\ [][Next]_vars

NextClock ==
  \/ Tick
  \/ \E u \in Owners, t \in TemplateInputs :
       sessions = <<>> /\ create_session(u, t)
  \/ \E u \in Users, s \in SessionInputs : end_session(u, s)
  \/ \E u \in Users, s \in SessionInputs : delete_session(u, s)
  \/ \E u \in Users, s \in SessionInputs, st \in StatusInputs,
        b \in BOOLEAN, spk \in SpeakerInputs :
       update_session(u, s, st, b, spk)

\* the lifecycle of a session while time passes
SpecClock == Init /\ [][NextClock]_vars

NextSeq ==
  \/ \E u \in Owners : sessions = <<>> /\ create_session(u, 1)
  \/ Turns({1}, {<<"hello">>}, SpeakerInputs)

\* participants and turns of a session of the three-role sequential
\* template, one send_message at a time
SpecSeq == Init /\ [][NextSeq]_vars

\* the status values a caller of update_session moves a session to
LifeStatusInputs == {PAUSED, ACTIVE, ARCHIVED}

NextLife ==
  \/ \E u \in Owners : sessions = <<>> /\ create_session(u, 4)
  \/ \E u \in Users, s \in SessionInputs : end_session(u, s)
  \/ \E u \in Users, s \in SessionInputs, st \in LifeStatusInputs :
       update_session(u, s, st, FALSE, NULL)
  \/ Turns({1}, {<<"hello">>}, {NULL})

\* participants and turns of a session that is paused, resumed, ended and
\* archived in between
SpecLife == Init /\ [][NextLife]_vars

\* texts with no keyword, and with two keywords of different roles
ExpertiseContents == {<<"hello">>, <<"magic", "philosophy">>}

NextExpertise ==
  \/ \E u \in Owners : sessions = <<>> /\ create_session(u, 2)
  \/ Turns({1}, ExpertiseContents, {NULL})

\* participants and turns of a session of the expertise_based template
SpecExpertise == Init /\ [][NextExpertise]_vars

NextCollaborative ==
  \/ \E u \in Owners : sessions = <<>> /\ create_session(u, 7)
  \/ Turns({1}, {<<"hello">>}, {NULL, 2})

\* participants and turns of a session of the three-role collaborative
\* template
SpecCollaborative == Init /\ [][NextCollaborative]_vars

NextTwoSessions ==
  \/ \E u \in Users, t \in {4, 5, 6} : create_session(u, t)
  \/ \E u \in Users, s \in SessionIds, r \in RoleInputs, k \in AddTypes :
       add_participant(u, s, r, k)
  \/ \E u \in Users, s \in SessionIds, i \in ParticipantInputs :
       remove_participant(u, s, i)

\* two sessions, of one user or of two, and their participants
SpecTwoSessions == Init /\ [][NextTwoSessions]_vars

\* ================================================================ claims
InFlight(p) == req[p].pc = "responding"

MessagesOf(sid) == SelectSeq(messages, LAMBDA m : m.session_id = sid)

ActiveIdsOf(sid) == {i \in ParticipantIdsOf(sid) : participants[i].is_active}

\* the active AI participants of a session, by join_order
ActiveAi(sid) ==
  OrderByJoin({i \in ActiveIdsOf(sid) : participants[i].participant_type = AI})

\* C1: when generate_reply fails during send_message, the failure is
\* surfaced to the caller, no reply of that turn is stored, and the user
\* message of that turn is stored
C1_FailedTurnKeepsUserMessage ==
  [][\A p \in Procs :
       (InFlight(p) /\ req'[p].pc = "idle" /\ ret'.detail = "llm_failed") =>
         /\ ret'.op = "send_message" /\ ret'.code \in {400, 500}
         /\ \A i \in DOMAIN messages' :
              i \notin DOMAIN messages => messages'[i].tag = "user"
         /\ \E i \in DOMAIN messages' :
              /\ messages'[i].session_id = req[p].sid
              /\ messages'[i].participant_id = req[p].up
              /\ messages'[i].tag = "user"
              /\ messages'[i].content = <<req[p].content>>]_vars

\* C2: the message_order values of a session's stored messages are 1..N,
\* in the sequence the messages were stored
C2_MessageOrderIs1toN ==
  \A s \in DOMAIN sessions :
    \A k \in DOMAIN MessagesOf(s) : MessagesOf(s)[k].message_order = k

\* C3: at most one send_message call per session is between reading the
\* session and committing its messages
C3_OneTurnAtATimePerSession ==
  \A p, q \in Procs :
    (p # q /\ InFlight(p) /\ InFlight(q)) => req[p].sid # req[q].sid

\* C4: while no send_message is in progress on a session, its
\* message_count is the number of its stored messages
C4_MessageCountIsNumberOfMessages ==
  \A s \in DOMAIN sessions :
    (\A p \in Procs : ~(InFlight(p) /\ req[p].sid = s)) =>
      sessions[s].message_count = Len(MessagesOf(s))

\* C5: the number of active participants of a session never exceeds the
\* max_roles of its template
C5_ActiveWithinMaxRoles ==
  \A s \in DOMAIN sessions :
    Cardinality(ActiveIdsOf(s)) <= SceneTemplate(sessions[s].template_id).max_roles

\* C6: no two participants of a session have the same role_id
C6_RoleOncePerSession ==
  \A i, j \in DOMAIN participants :
    (i # j /\ participants[i].session_id = participants[j].session_id)
      => participants[i].role_id # participants[j].role_id

AllowedTransitions ==
  {<<ACTIVE, PAUSED>>, <<PAUSED, ACTIVE>>, <<ACTIVE, ENDED>>, <<ENDED, ARCHIVED>>}

\* C7: through end, delete and update of a session, its status changes
\* only along active->paused, paused->active, active->ended and
\* ended->archived (so an ended or archived session is never active again)
C7_StatusTransitions ==
  [][\A s \in DOMAIN sessions :
       sessions'[s].status # sessions[s].status =>
         <<sessions[s].status, sessions'[s].status>> \in AllowedTransitions]_vars

\* C8: current_speaker is NULL or the role_id of an active participant of
\* the session
C8_CurrentSpeakerIsActive ==
  \A s \in DOMAIN sessions :
    \/ sessions[s].current_speaker = NULL
    \/ \E i \in ActiveIdsOf(s) :
         participants[i].role_id = sessions[s].current_speaker

\* C9: end_session on a session that is not ended or archived answers true
\* and sets status = ended and ended_at; on an ended or archived session it
\* answers false and changes nothing
C9_EndSessionIdempotent ==
  [][\A u \in Users, s \in SessionInputs :
       (end_session(u, s) /\ Owned(u, s)) =>
         IF sessions[s].status \notin {ENDED, ARCHIVED}
         THEN /\ ret'.code = 200
              /\ sessions'[s].status = ENDED
              /\ sessions'[s].ended_at = clock
         ELSE /\ ret'.code = 400
              /\ sessions' = sessions]_vars

\* C10: sequential strategy: with the active AI participants p1..pN by
\* join_order, a hint that is the role_id of pi selects p(i+1), pN's
\* successor being p1, and no hint selects p1
C10_SequentialSuccessor ==
  [][\A p \in Procs :
       (req[p].pc = "idle" /\ req'[p].pc = "responding"
          /\ req'[p].strategy = "sequential") =>
         LET ai == ActiveAi(req'[p].sid)
             N == Len(ai)
             h == req'[p].hint
         IN /\ N > 0
            /\ h = NULL => req'[p].sel = << ai[1] >>
            /\ \A i \in 1..N :
                 participants[ai[i]].role_id = h =>
                   req'[p].sel = << ai[IF i = N THEN 1 ELSE i + 1] >>]_vars

\* a send_message in flight whose hint was the role of the last of three
\* active AI participants and whose speaker is the first of them
C10_Witness ==
  \E p \in Procs :
    /\ InFlight(p)
    /\ Len(ActiveAi(req[p].sid)) = 3
    /\ req[p].hint = participants[ActiveAi(req[p].sid)[3]].role_id
    /\ req[p].sel = << ActiveAi(req[p].sid)[1] >>

\* C11: send_message by its owner on a session whose status is not active
\* is answered "session not active", starts no generate_reply call, and
\* leaves sessions (message_count, current_speaker, updated_at),
\* participants and messages as they were
C11_InactiveSessionRejectsMessage ==
  [][\A p \in Procs, u \in Users, s \in SessionInputs :
       (/\ Owned(u, s)
        /\ sessions[s].status # ACTIVE
        /\ send_message(p, u, s, NULL, <<"hello">>)) =>
         /\ ret' = Response("send_message", 400, "session_not_active")
         /\ UNCHANGED <<sessions, participants, messages, req>>]_vars

\* a session with active participants that is not active, and whose message
\* was just refused for that
C11_Witness ==
  /\ ret = Response("send_message", 400, "session_not_active")
  /\ \E s \in DOMAIN sessions :
       /\ sessions[s].status \in {PAUSED, ENDED, ARCHIVED}
       /\ get_active_participants(s) # <<>>

\* C12: while a session is ended or archived no call changes its
\* participants (the rows, is_active, join_order), its messages, its
\* message_count or its current_speaker
C12_EndedSessionIsReadOnly ==
  [][\A s \in DOMAIN sessions :
       sessions[s].status \in {ENDED, ARCHIVED} =>
         /\ {i \in DOMAIN participants' : participants'[i].session_id = s}
              = ParticipantIdsOf(s)
         /\ \A i \in ParticipantIdsOf(s) : participants'[i] = participants[i]
         /\ SelectSeq(messages', LAMBDA m : m.session_id = s) = MessagesOf(s)
         /\ sessions'[s].message_count = sessions[s].message_count
         /\ sessions'[s].current_speaker = sessions[s].current_speaker]_vars

\* C13: add_participant by the owner, for a role that has no participant in
\* the session yet, is refused for max_roles exactly when the number of
\* active participants of the session has reached the template's
\* max_roles: removed participants are not counted
C13_MaxRolesCountsActive ==
  [][\A u \in Users, s \in SessionInputs, r \in RoleIds, k \in AddTypes :
       (/\ Owned(u, s)
        /\ \A i \in ParticipantIdsOf(s) : participants[i].role_id # r
        /\ add_participant(u, s, r, k)) =>
         (ret'.detail = "max_roles_reached"
            <=> Cardinality(ActiveIdsOf(s))
                  >= SceneTemplate(sessions[s].template_id).max_roles)]_vars

\* C14: every participant of a session has join_order >= 1, and no two
\* participants of a session have the same join_order
C14_JoinOrderPositiveUnique ==
  /\ \A i \in DOMAIN participants : participants[i].join_order >= 1
  /\ \A i, j \in DOMAIN participants :
       (i # j /\ participants[i].session_id = participants[j].session_id)
         => participants[i].join_order # participants[j].join_order

\* C15: while the first generate_reply call of a send_message is in flight,
\* the user's message of that turn is a stored message of the session
C15_UserMessageStoredBeforeReply ==
  \A p \in Procs :
    InFlight(p) =>
      \E i \in DOMAIN messages :
        /\ messages[i].session_id = req[p].sid
        /\ messages[i].participant_id = req[p].up
        /\ messages[i].tag = "user"
        /\ messages[i].content = <<req[p].content>>

\* C16: collaborative strategy with two or more active AI participants:
\* the first two by join_order are selected, in that order; generate_reply
\* is called for the first with the user's text, and after it has returned
\* for the second with a follow-up prompt holding the first's reply; the
\* turn stores the user message, then the first's reply marked primary,
\* then the second's marked supplementary
C16_CollaborativeTwoInOrder ==
  [][\A p \in Procs :
       LET r == req[p]
           q == req'[p]
           ai == ActiveAi(q.sid)
       IN
       /\ (r.pc = "idle" /\ q.pc = "responding" /\ q.strategy = "collaborative"
             /\ Len(ai) >= 2) =>
            (q.sel = << ai[1], ai[2] >> /\ q.replies = <<>>)
       /\ (r.pc = "responding" /\ r.strategy = "collaborative" /\ Len(r.sel) = 2
             /\ r.replies = <<>> /\ q.pc = "responding" /\ q # r) =>
            /\ q.replies = << <<"reply", participants[r.sel[1]].role_id, <<r.content>> >> >>
            /\ messages' = messages
       /\ (r.pc = "responding" /\ r.strategy = "collaborative" /\ Len(r.sel) = 2
             /\ Len(r.replies) = 1 /\ q.pc = "idle" /\ ret'.code = 200) =>
            LET n == Len(messages)
                second == <<"reply", participants[r.sel[2]].role_id,
                            <<"follow_up", r.content, r.replies[1]>> >>
            IN /\ Len(messages') = n + 3
               /\ SubSeq(messages', 1, n) = messages
               /\ messages'[n + 1].tag = "user"
               /\ messages'[n + 2].participant_id = r.sel[1]
               /\ messages'[n + 2].content = r.replies[1]
               /\ messages'[n + 2].tag = "primary"
               /\ messages'[n + 3].participant_id = r.sel[2]
               /\ messages'[n + 3].content = second
               /\ messages'[n + 3].tag = "supplementary"]_vars

\* a stored collaborative turn: the reply of the first active AI participant
\* marked primary, followed by the reply of the second, marked
\* supplementary and made from a prompt that holds the first's reply
C16_Witness ==
  \E i \in DOMAIN messages :
    /\ i + 1 \in DOMAIN messages
    /\ messages[i].tag = "primary"
    /\ messages[i + 1].tag = "supplementary"
    /\ messages[i + 1].content[3] = <<"follow_up", <<"hello">>, messages[i].content>>
    /\ participants[messages[i].participant_id].join_order
         < participants[messages[i + 1].participant_id].join_order
    /\ Len(ActiveAi(messages[i].session_id)) = 3

\* the response_strategy of a session's template
StrategyOf(sid) == SceneTemplate(sessions[sid].template_id).response_strategy

\* C17: collaborative strategy with fewer than two active AI participants
\* does what sequential does: with one, that participant is the only one
\* asked, with the user's text, and its reply is the only one stored; a
\* turn without a reply happens only when there is none
C17_CollaborativeFallsBackToSequential ==
  [][\A p \in Procs :
       LET r == req[p]
           q == req'[p]
           n == Len(messages)
       IN
       /\ (r.pc = "idle" /\ q.pc = "responding" /\ q.strategy = "collaborative"
             /\ Len(ActiveAi(q.sid)) = 1) =>
            q.sel = << ActiveAi(q.sid)[1] >>
       /\ (r.pc = "responding" /\ r.strategy = "collaborative" /\ Len(r.sel) = 1
             /\ q.pc = "idle" /\ ret'.code = 200) =>
            /\ Len(messages') = n + 2
            /\ messages'[n + 1].tag = "user"
            /\ messages'[n + 2].participant_id = r.sel[1]
            /\ messages'[n + 2].content
                 = <<"reply", participants[r.sel[1]].role_id, <<r.content>> >>
            /\ messages'[n + 2].tag = "sequential"
       /\ (r.pc = "idle" /\ req' = req /\ Len(messages') > n
             /\ StrategyOf(messages'[n + 1].session_id) = "collaborative") =>
            /\ Len(messages') = n + 1
            /\ messages'[n + 1].tag = "user"
            /\ ActiveAi(messages'[n + 1].session_id) = <<>>]_vars

\* a stored reply of the only active AI participant of a collaborative
\* session
C17_Witness ==
  \E i \in DOMAIN messages :
    /\ StrategyOf(messages[i].session_id) = "collaborative"
    /\ messages[i].tag = "sequential"
    /\ ActiveAi(messages[i].session_id) = << messages[i].participant_id >>

\* the places in the list of active participants (as read at the start of
\* the turn) of those whose role is listed for the k-th keyword, when the
\* text holds that keyword
KeywordHits(act, content, k) ==
  {i \in DOMAIN act :
     /\ KeywordIn(ExpertiseKeywords[k].keyword, content)
     /\ RoleName(participants[act[i]].role_id) \in ExpertiseKeywords[k].role_names}

\* C18: expertise_based strategy asks exactly one participant: when the
\* text holds a keyword for which an active participant's role is listed,
\* the first active participant, by join_order, listed for such a keyword;
\* when there is no such keyword, some active participant
C18_ExpertiseSelectsOne ==
  [][/\ \A p \in Procs :
          LET q == req'[p]
              act == get_active_participants(q.sid)
              K == {k \in DOMAIN ExpertiseKeywords :
                      KeywordHits(act, q.content, k) # {}}
          IN (req[p].pc = "idle" /\ q.pc = "responding"
                /\ q.strategy = "expertise_based") =>
               /\ Len(q.sel) = 1
               /\ K # {} => \E k \in K :
                               q.sel[1] = act[Min(KeywordHits(act, q.content, k))]
               /\ K = {} => q.sel[1] \in Range(act)
     /\ (req' = req /\ Len(messages') > Len(messages)) =>
          StrategyOf(messages'[Len(messages')].session_id) # "expertise_based"]_vars

\* the stored replies (the messages that are not the user's) of a participant
RepliesOf(i) ==
  {k \in DOMAIN messages :
     messages[k].participant_id = i /\ messages[k].tag # "user"}

\* C19: a participant's speak_count is the number of stored replies that
\* carry its participant id, and a participant that has replied has
\* last_speak_at set; a completed turn with replies leaves current_speaker
\* at the role_id of the participant that replied last
C19_SpeakCountIsNumberOfReplies ==
  \A i \in DOMAIN participants :
    /\ participants[i].speak_count = Cardinality(RepliesOf(i))
    /\ RepliesOf(i) # {} => participants[i].last_speak_at # NULL

\* the current_speaker half of C19
C19_CurrentSpeakerIsLastReplier ==
  [][\A p \in Procs :
       (InFlight(p) /\ req'[p].pc = "idle" /\ ret'.code = 200) =>
         /\ messages'[Len(messages')].tag # "user"
         /\ sessions'[req[p].sid].current_speaker
              = participants[messages'[Len(messages')].participant_id].role_id]_vars

\* C20: send_message by its owner on an active session that has no active
\* participant is answered "no active participants", starts no
\* generate_reply call, stores no message and leaves message_count and
\* current_speaker (and all else) as they were
C20_NoActiveParticipantsRejected ==
  [][\A p \in Procs, u \in Users, s \in SessionInputs :
       (/\ Owned(u, s)
        /\ sessions[s].status = ACTIVE
        /\ ActiveIdsOf(s) = {}
        /\ send_message(p, u, s, NULL, <<"hello">>)) =>
         /\ ret' = Response("send_message", 400, "no_active_participants")
         /\ UNCHANGED <<sessions, participants, messages, req>>]_vars

\* an active session all of whose participants were removed, and whose
\* message was just refused for that
C20_Witness ==
  /\ ret = Response("send_message", 400, "no_active_participants")
  /\ \E s \in DOMAIN sessions :
       /\ sessions[s].status = ACTIVE
       /\ ParticipantIdsOf(s) # {}
       /\ ActiveIdsOf(s) = {}

\* C21: remove_participant of an existing participant answers true and
\* only sets that row's is_active to false: the row stays, its join_order
\* and every other row stay as they were; of an unknown id it answers false
\* and changes nothing
C21_RemoveOnlyClearsActive ==
  [][\A u \in Users, s \in SessionInputs, pid \in ParticipantInputs :
       (Owned(u, s) /\ remove_participant(u, s, pid)) =>
         IF pid \in DOMAIN participants
         THEN /\ ret'.code = 200
              /\ DOMAIN participants' = DOMAIN participants
              /\ participants'[pid].is_active = FALSE
              /\ participants'[pid].join_order = participants[pid].join_order
              /\ participants'[pid].role_id = participants[pid].role_id
              /\ participants'[pid].session_id = participants[pid].session_id
              /\ \A i \in DOMAIN participants \ {pid} :
                   participants'[i] = participants[i]
         ELSE /\ ret'.code = 400
              /\ participants' = participants]_vars

\* the participant that joined first was just removed, and the one that
\* joined second is active and still has join_order 2
C21_Witness ==
  /\ ret = Response("remove_participant", 200, "ok")
  /\ \E i, j \in DOMAIN participants :
       /\ participants[i].session_id = participants[j].session_id
       /\ ~participants[i].is_active /\ participants[i].join_order = 1
       /\ participants[j].is_active /\ participants[j].join_order = 2

\* C22: add_participant is refused for a session that is missing (or not
\* the caller's), for a role that is missing and for a role that is in the
\* session already; a refused add_participant, whatever the reason, adds no
\* participant and changes no row; an accepted one appends one row whose
\* join_order is the greatest join_order of the session plus one
C22_RejectedAddChangesNothing ==
  [][\A u \in Users, s \in SessionInputs, r \in RoleInputs, k \in AddTypes :
       add_participant(u, s, r, k) =>
         LET orders == {participants[i].join_order : i \in ParticipantIdsOf(s)}
         IN
         /\ (\/ ~Owned(u, s)
             \/ r \notin RoleIds
             \/ \E i \in ParticipantIdsOf(s) : participants[i].role_id = r)
              => ret'.code # 200
         /\ ret'.code # 200 =>
              UNCHANGED <<participants, sessions, messages, req>>
         /\ ret'.code = 200 =>
              /\ Len(participants') = Len(participants) + 1
              /\ SubSeq(participants', 1, Len(participants)) = participants
              /\ participants'[Len(participants')].join_order
                   = Max(orders \cup {0}) + 1]_vars

\* an add_participant that was just refused because the role is in the
\* session, which has two participants
C22_Witness ==
  /\ ret = Response("add_participant", 400, "role_already_in_session")
  /\ \E s \in DOMAIN sessions : Len(AiOf(get_session_participants(s))) = 2

\* C23: create_session with a template id that has no row, or whose row is
\* disabled, is refused for that and makes no session; otherwise it makes
\* one session, of the caller and the template, with status active,
\* message_count 0, current_speaker NULL and no participants
C23_CreateSessionInitialState ==
  [][\A u \in Users, t \in TemplateInputs :
       create_session(u, t) =>
         IF t \in TemplateIds /\ SceneTemplate(t).is_active
         THEN LET new == Len(sessions) + 1 IN
              /\ ret'.code = 200
              /\ Len(sessions') = new
              /\ SubSeq(sessions', 1, Len(sessions)) = sessions
              /\ sessions'[new].user_id = u
              /\ sessions'[new].template_id = t
              /\ sessions'[new].status = ACTIVE
              /\ sessions'[new].message_count = 0
              /\ sessions'[new].current_speaker = NULL
              /\ \A i \in DOMAIN participants' : participants'[i].session_id # new
              /\ \A i \in DOMAIN messages' : messages'[i].session_id # new
         ELSE /\ ret' = Response("create_session", 400, "template_missing_or_disabled")
              /\ sessions' = sessions]_vars

\* a second session was just made, while the first has participants
C23_Witness ==
  /\ ret = Response("create_session", 200, "ok")
  /\ Len(sessions) = 2
  /\ sessions[2].status = ACTIVE /\ sessions[2].message_count = 0
  /\ ParticipantIdsOf(1) # {} /\ ParticipantIdsOf(2) = {}

\* C24: once a session has accepted a send_message (which is when it has
\* its USER participant), the number of its active AI participants is at
\* least the min_roles of its template
C24_ActiveAiAtLeastMinRoles ==
  \A s \in DOMAIN sessions :
    user_participant(s) # NULL =>
      Len(ActiveAi(s)) >= SceneTemplate(sessions[s].template_id).min_roles

\* C25: in a sequential session with the active AI participants A
\* (join_order 1) and B (join_order 2), and generate_reply succeeding: a
\* send_message without hint asks A, one with A's role_id as hint asks B;
\* the turn stores the user message and the one reply, of the participant
\* asked, sets current_speaker to its role_id and adds 2 to message_count
\* (2 after the first turn, 4 after the second)
C25_TwoTurnsOfTwoRoles ==
  [][\A p \in Procs :
       LET r == req[p]
           q == req'[p]
           ai == ActiveAi(q.sid)
           n == Len(messages)
       IN
       /\ (r.pc = "idle" /\ q.pc = "responding" /\ q.strategy = "sequential"
             /\ Len(ai) = 2) =>
            /\ q.hint = NULL => q.sel = << ai[1] >>
            /\ q.hint = participants[ai[1]].role_id => q.sel = << ai[2] >>
       /\ (r.pc = "responding" /\ r.strategy = "sequential"
             /\ q.pc = "idle" /\ ret'.code = 200) =>
            /\ Len(r.sel) = 1
            /\ Len(messages') = n + 2
            /\ messages'[n + 1].tag = "user"
            /\ messages'[n + 2].participant_id = r.sel[1]
            /\ messages'[n + 2].role_id = participants[r.sel[1]].role_id
            /\ sessions'[r.sid].current_speaker = participants[r.sel[1]].role_id
            /\ sessions'[r.sid].message_count = sessions[r.sid].message_count + 2
            /\ sessions'[r.sid].message_count = Len(messages')]_vars

\* the end of the scenario: two turns stored, the first answered by A, the
\* second by B, current_speaker is B and message_count is 4
C25_Witness ==
  \E s \in DOMAIN sessions :
    LET ai == ActiveAi(s) IN
    /\ StrategyOf(s) = "sequential"
    /\ SceneTemplate(sessions[s].template_id).min_roles = 2
    /\ SceneTemplate(sessions[s].template_id).max_roles = 3
    /\ Len(ai) = 2
    /\ participants[ai[1]].join_order = 1 /\ participants[ai[2]].join_order = 2
    /\ Len(messages) = 4
    /\ messages[1].tag = "user" /\ messages[2].participant_id = ai[1]
    /\ messages[3].tag = "user" /\ messages[4].participant_id = ai[2]
    /\ sessions[s].current_speaker = participants[ai[2]].role_id
    /\ sessions[s].message_count = 4

\* C26: remove_participant called on a session of the caller changes no
\* participant of another session
C26_RemoveStaysInSession ==
  [][\A u \in Users, s \in SessionIds, pid \in ParticipantInputs :
       (Owned(u, s) /\ remove_participant(u, s, pid)) =>
         \A i \in DOMAIN participants :
           participants[i].session_id # s => participants'[i] = participants[i]]_vars

\* C27: the participants asked to reply in a turn are participants of the
\* session that were active when the turn started and are of type AI, and
\* every stored reply carries the id of such a participant, of the same
\* session, and that participant's role_id
C27_RepliesComeFromActiveAi ==
  [][/\ \A p \in Procs :
          LET q == req'[p] IN
          (req[p].pc = "idle" /\ q.pc = "responding") =>
            \A k \in DOMAIN q.sel :
              /\ q.sel[k] \in ActiveIdsOf(q.sid)
              /\ participants[q.sel[k]].participant_type = AI
     /\ \A i \in DOMAIN messages' \ DOMAIN messages :
          messages'[i].tag # "user" =>
            LET by == messages'[i].participant_id IN
            /\ by \in DOMAIN participants
            /\ participants[by].session_id = messages'[i].session_id
            /\ participants[by].participant_type = AI
            /\ participants[by].role_id = messages'[i].role_id]_vars

\* the participants of type USER of a session
UsersOf(sid) ==
  {i \in ParticipantIdsOf(sid) : participants[i].participant_type = USER}

C29_UnknownHintSelectsFirst ==
  [][\A p \in Procs :
       LET q == req'[p]
           ai == ActiveAi(q.sid)
       IN (/\ req[p].pc = "idle" /\ q.pc = "responding"
           /\ q.strategy = "sequential"
           /\ q.hint # NULL
           /\ \A i \in DOMAIN ai : participants[ai[i]].role_id # q.hint) =>
            q.sel = << ai[1] >>]_vars

\* a turn in flight whose hint is the role of a removed participant, in a
\* session with two active AI participants, the first of which is asked
C29_Witness ==
  \E p \in Procs :
    /\ InFlight(p)
    /\ req[p].strategy = "sequential"
    /\ Len(ActiveAi(req[p].sid)) = 2
    /\ \E i \in ParticipantIdsOf(req[p].sid) :
         /\ ~participants[i].is_active
         /\ participants[i].participant_type = AI
         /\ participants[i].role_id = req[p].hint
    /\ req[p].sel = << ActiveAi(req[p].sid)[1] >>

\* C30: send_message by its owner on an active session of a sequential or
\* collaborative template that has active participants, none of them of
\* type AI, calls generate_reply for nobody and succeeds: it stores the
\* user message and nothing else, adds 1 to message_count and leaves
\* current_speaker as it was
C30_TurnWithoutAiStoresUserMessage ==
  [][\A p \in Procs, u \in Users, s \in SessionInputs, h \in {NULL, 2} :
       (/\ Owned(u, s)
        /\ sessions[s].status = ACTIVE
        /\ ActiveIdsOf(s) # {}
        /\ ActiveAi(s) = <<>>
        /\ StrategyOf(s) \in {"sequential", "collaborative"}
        /\ send_message(p, u, s, h, <<"hello">>)) =>
         LET n == Len(messages) IN
         /\ req' = req
         /\ ret' = Response("send_message", 200, "ok")
         /\ Len(messages') = n + 1
         /\ SubSeq(messages', 1, n) = messages
         /\ messages'[n + 1].session_id = s
         /\ messages'[n + 1].tag = "user"
         /\ messages'[n + 1].participant_id \in UsersOf(s)
         /\ sessions'[s].message_count = sessions[s].message_count + 1
         /\ sessions'[s].current_speaker = sessions[s].current_speaker
         /\ participants' = participants]_vars

\* a turn without a reply was just stored, after a turn with one, in a
\* session whose active participants are not of type AI; current_speaker
\* is still the role that replied before
C30_Witness ==
  /\ ret = Response("send_message", 200, "ok")
  /\ Len(messages) = 3
  /\ messages[2].tag # "user" /\ messages[3].tag = "user"
  /\ LET s == messages[3].session_id IN
     /\ ActiveIdsOf(s) # {} /\ ActiveAi(s) = <<>>
     /\ sessions[s].message_count = 3
     /\ sessions[s].current_speaker = messages[2].role_id
====
